---- MODULE Spec2Model ----
(***************************************************************************)
(* Model of generate_aoc_project.py: the generator's main() as a state     *)
(* machine over a file system, a git repository and the console, and the   *)
(* run() of a day of the generated Swift project (AdventOfCodeDay).        *)
(*                                                                         *)
(* Text is modelled as TLA+ strings; a file's contents are the sequence of *)
(* the template's lines that carry a parameter or a literal the generated  *)
(* program depends on.  A path is the sequence of its components, relative *)
(* to the working directory (the empty sequence).                          *)
(***************************************************************************)
EXTENDS Integers, Sequences, FiniteSets, TLC

\* ------------------------------------------------------------------ bounds
\* day counts tried: -1..MaxDays with every year, and ManyDays (a count with
\* three digits) with the first year
MaxDays == 11
ManyDays == 100
\* years tried: MinYear..MaxYear
MinYear == 2023
MaxYear == 2024
\* number of consecutive runs of the generator in one working directory
MaxRuns == 2
\* days of the generated project that the operator may invoke
MaxRunDay == 12

Years == MinYear..MaxYear
DayCounts == (0 - 1)..MaxDays

\* ------------------------------------------------------- integers and text
DigitChar == <<"0", "1", "2", "3", "4", "5", "6", "7", "8", "9">>

RECURSIVE Chars(_)
\* the decimal characters of an integer, as str(int) produces them
Chars(n) ==
    IF n < 0 THEN <<"-">> \o Chars(0 - n)
    ELSE IF n < 10 THEN <<DigitChar[n + 1]>>
    ELSE Chars(n \div 10) \o <<DigitChar[(n % 10) + 1]>>

RECURSIVE Join(_)
Join(cs) == IF cs = <<>> THEN "" ELSE Head(cs) \o Join(Tail(cs))

\* f"{n}" in Python, "\(n)" in Swift
Str(n) == Join(Chars(n))

\* a faulty variant of Fmt02: the format specification without the zero fill
Fmt02_unpadded(n) == Str(n)

\* f"{n:02d}": minimum width 2, filled with zeros on the left
Fmt02(n) == IF Len(Chars(n)) >= 2 THEN Str(n) ELSE "0" \o Str(n)

IsDigit(c) == \E i \in 1..10 : DigitChar[i] = c
DigitVal(c) == (CHOOSE i \in 1..10 : DigitChar[i] = c) - 1

RECURSIVE DigitsVal(_)
DigitsVal(cs) ==
    IF cs = <<>> THEN 0
    ELSE 10 * DigitsVal(SubSeq(cs, 1, Len(cs) - 1)) + DigitVal(cs[Len(cs)])

AllDigits(cs) == cs # <<>> /\ \A i \in 1..Len(cs) : IsDigit(cs[i])

\* int(s) accepts an optional sign followed by digits
IsIntLiteral(tok) ==
    \/ AllDigits(tok)
    \/ tok # <<>> /\ Head(tok) = "-" /\ AllDigits(Tail(tok))

\* int(s) for a token that IsIntLiteral
IntOf(tok) ==
    IF Head(tok) = "-" THEN 0 - DigitsVal(Tail(tok)) ELSE DigitsVal(tok)

\* --------------------------------------------------------- command line
Prog == <<"generate_aoc_project.py">>
Junk == <<"x">>
YearToks == {Chars(y) : y \in Years}
DayToks == {Chars(d) : d \in DayCounts}

\* sys.argv: the program name and zero, one or two positional values
ArgvSet ==
    {<<Prog>>}
    \cup {<<Prog, y>> : y \in YearToks}
    \cup {<<Prog, y, d>> : y \in YearToks, d \in DayToks \cup {Junk}}
    \cup {<<Prog, Chars(MinYear), Chars(ManyDays)>>}
    \cup {<<Prog, Junk, d>> : d \in {Chars(1)}}

\* ------------------------------------------------------------- templates
package_swift(project_name) ==
    << "// swift-tools-version: 6.0",
       "name: " \o project_name,
       ".executable(name: " \o project_name \o ", targets: [" \o project_name \o "])",
       ".package(url: https://github.com/apple/swift-argument-parser.git, from: 1.3.0)",
       ".executableTarget(name: " \o project_name \o ", resources: [.copy(Inputs)])",
       ".testTarget(name: " \o project_name \o "Tests, dependencies: [" \o project_name \o "])" >>

gitignore_contents ==
    << ".build/", ".swiftpm/", "Package.resolved", ".DS_Store", "xcuserdata/",
       "DerivedData/", "*.xcworkspace", "*.xcodeproj", "*.log", "Inputs/" >>

protocol_file(yr) ==
    << "protocol AdventOfCodeDay: AsyncParsableCommand",
       "commandName: day\\(Self.day)",
       "fileName: day + String(format: %02d, day) + .txt",
       "environment[AOC_SESSION]",
       "URL(string: https://adventofcode.com/" \o Str(yr) \o "/day/\\(day)/input)" >>

RECURSIVE Reverse(_)
Reverse(seq) == IF seq = <<>> THEN <<>> ELSE Reverse(Tail(seq)) \o <<Head(seq)>>

\* a faulty variant of root_cli: the entries joined in reverse order
root_cli_reversed(subs, yr) ==
    << "struct AdventOfCode" \o Str(yr) \o ": AsyncParsableCommand",
       "commandName: aoc-" \o Str(yr),
       "abstract: Run Advent of Code solutions for " \o Str(yr),
       "subcommands: [" >> \o Reverse(subs) \o << "]" >>

\* one line per entry of subcommands, as ",\n      ".join(subcommands) lays
\* them out
root_cli(subs, yr) ==
    << "struct AdventOfCode" \o Str(yr) \o ": AsyncParsableCommand",
       "commandName: aoc-" \o Str(yr),
       "abstract: Run Advent of Code solutions for " \o Str(yr),
       "subcommands: [" >> \o subs \o << "]" >>

day_file(d) ==
    << "struct Day" \o Fmt02(d) \o ": AdventOfCodeDay",
       "static let day = " \o Str(d),
       "parse: input.trimmingCharacters(in: .whitespacesAndNewlines)",
       "part1: Not implemented",
       "part2: Not implemented" >>

test_file(d, project_name) ==
    << "@testable import " \o project_name,
       "struct Day" \o Fmt02(d) \o "Tests",
       "testParse: Day" \o Fmt02(d) \o "().parse(sample).isEmpty == false",
       "testPart1: Day" \o Fmt02(d) \o "().part1(parsed) == Not implemented",
       "testPart2: Day" \o Fmt02(d) \o "().part2(parsed) == Not implemented" >>

readme_file(yr, project_name) ==
    << "# Advent of Code " \o Str(yr) \o " - Swift",
       "swift run " \o project_name \o " <subcommand>",
       "swift run " \o project_name \o " day01",
       "Enter the subcommand for the day you want to solve (e.g., day01)",
       "delete day01, and add day02",
       "Name: AOC_SESSION" >>

\* ----------------------------------------------------------------- paths
ProjectName(yr) == "AdventOfCode" \o Str(yr)
project_dir(yr) == <<ProjectName(yr)>>
sources(yr) == project_dir(yr) \o <<"Sources", ProjectName(yr)>>
tests(yr) == project_dir(yr) \o <<"Tests", ProjectName(yr) \o "Tests">>
inputs(yr) == sources(yr) \o <<"Inputs">>

StructName(d) == "Day" \o Fmt02(d)

PackagePath(yr) == project_dir(yr) \o <<"Package.swift">>
GitignorePath(yr) == project_dir(yr) \o <<".gitignore">>
ReadmePath(yr) == project_dir(yr) \o <<"README.md">>
ProtocolPath(yr) == sources(yr) \o <<"AdventOfCodeDay.swift">>
DayPath(yr, d) == sources(yr) \o <<StructName(d) \o ".swift">>
TestPath(yr, d) == tests(yr) \o <<StructName(d) \o "Tests.swift">>
InputPath(yr, d) == inputs(yr) \o <<"day" \o Fmt02(d) \o ".txt">>
RootPath(yr) == sources(yr) \o <<"AdventOfCode.swift">>

Parent(p) == SubSeq(p, 1, Len(p) - 1)
Prefixes(p) == {SubSeq(p, 1, k) : k \in 0..Len(p)}

\* ----------------------------------------------------------- file system
\* faults the operating system may raise while a file is written
Faults == {"none", "mkdir", "open", "write"}

EmptyFS == [p \in {} |-> <<>>]

\* Path.mkdir(parents, exist_ok) on directory d, given the directories ds and
\* the files fs: the directories afterwards and whether an OSError is raised
mkdir(ds, fs, d, parents, exist_ok, fault) ==
    IF d \in ds
    THEN [raised |-> ~exist_ok, dirs |-> ds]
    ELSE IF \E q \in Prefixes(d) : q \in DOMAIN fs
    THEN [raised |-> TRUE, dirs |-> ds]
    ELSE IF Parent(d) \notin ds /\ ~parents
    THEN [raised |-> TRUE, dirs |-> ds]
    ELSE IF fault = "mkdir"
    THEN [raised |-> TRUE, dirs |-> ds]
    ELSE [raised |-> FALSE, dirs |-> ds \cup Prefixes(d)]

\* a faulty variant of text_written: the file opened for appending
text_appended(existing, contents) == existing \o contents

\* what a file holds after open(mode "w") and a complete write
text_written(existing, contents) == contents

\* Path.write_text(contents) on file p
write_text(ds, fs, p, contents, fault) ==
    LET existing == IF p \in DOMAIN fs THEN fs[p] ELSE <<>>
        put(c) == (p :> c) @@ fs
    IN  IF p \in ds \/ Parent(p) \notin ds \/ fault = "open"
        THEN [raised |-> TRUE, disk |-> fs]
        ELSE IF fault = "write"
        THEN [raised |-> TRUE, disk |-> put(<<>>)]
        ELSE [raised |-> FALSE, disk |-> put(text_written(existing, contents))]

\* write(path, contents): create the parent directories, then write the text
write(ds, fs, p, contents, fault) ==
    LET m == mkdir(ds, fs, Parent(p), TRUE, TRUE, fault)
        w == write_text(m.dirs, fs, p, contents, fault)
    IN  IF m.raised
        THEN [raised |-> TRUE, dirs |-> m.dirs, disk |-> fs]
        ELSE [raised |-> w.raised, dirs |-> m.dirs, disk |-> w.disk]

\* -------------------------------------------------------------------- git
\* .gitignore patterns that end in "/" exclude every directory of that name
Ignored(fs, yr, p) ==
    /\ GitignorePath(yr) \in DOMAIN fs
    /\ \E i \in 1..(Len(p) - 1) :
          \E k \in 1..Len(fs[GitignorePath(yr)]) :
              fs[GitignorePath(yr)][k] = p[i] \o "/"

\* the tree `git add .` stages in the project directory
Staged(fs, yr) ==
    LET keep == {p \in DOMAIN fs :
                    /\ Len(p) > 1
                    /\ SubSeq(p, 1, 1) = project_dir(yr)
                    /\ ~Ignored(fs, yr, p)}
    IN  [p \in keep |-> fs[p]]

\* ------------------------------------------------------------- main: state
VARIABLES
    argv,         \* sys.argv
    pc,           \* the statement of main() to execute next
    year, days,   \* int(sys.argv[1]), int(sys.argv[2])
    day,          \* the loop variable of `for day in range(1, days + 1)`
    subcommands,  \* the list the loop appends to
    dirs, disk,   \* the file system under the working directory
    gitInstalled, \* whether a git executable is on the PATH
    gitRepo,      \* whether the project directory holds a repository
    gitIndex,     \* the staged tree
    commits,      \* the trees committed so far
    stdout,       \* the lines printed by the current run
    exit,         \* <<>> while running, <<status>> once the process ended
    exc,          \* the exception that ended the run, or "none"
    gitErr,       \* the exception caught by the try block, or "none"
    run,          \* the number of the current run in this working directory
    log,          \* history: the writes and commands of the current run
    wrote,        \* history: path -> contents written by the current run
    before,       \* history: the files on disk when the current run started
    failedAt,     \* history: the path whose write raised, or <<>>
    failCause     \* history: the fault behind that error ("none": no fault)

gvars == <<argv, pc, year, days, day, subcommands, dirs, disk, gitInstalled,
           gitRepo, gitIndex, commits, stdout, exit, exc, gitErr, run, log,
           wrote, before, failedAt, failCause>>

Usage == "Usage: python generate_aoc_project.py <year> <number_of_days>"
Summary(yr, n) ==
    "Generated Advent of Code Swift project for " \o Str(yr)
        \o " with " \o Str(n) \o " days!"
GitOk == "Initialized git repository."
GitWarning(e) == "Warning: Git initialization failed: " \o e
CommitMessage(yr) == "Initial Advent of Code " \o Str(yr) \o " project"

Ev(kind, what) == [ev |-> kind, what |-> what]

GenInit ==
    /\ argv \in ArgvSet
    /\ pc = "start"
    /\ year = 0 /\ days = 0 /\ day = 0
    /\ subcommands = <<>>
    /\ dirs = {<<>>}
    /\ disk = EmptyFS
    /\ gitInstalled \in BOOLEAN
    /\ gitRepo = FALSE
    /\ gitIndex = EmptyFS
    /\ commits = <<>>
    /\ stdout = <<>>
    /\ exit = <<>>
    /\ exc = "none"
    /\ gitErr = "none"
    /\ run = 1
    /\ log = <<>>
    /\ wrote = EmptyFS
    /\ before = EmptyFS
    /\ failedAt = <<>>
    /\ failCause = "none"

\* ----------------------------------------------------------- main: steps
\* a faulty variant of ArgsMissing: the bound of the length test off by one
ArgsMissing_one(a) == Len(a) < 2

\* `if len(sys.argv) < 3`
ArgsMissing(a) == Len(a) < 3

\* a faulty variant of DayRange: range(1, max(days, 1) + 1)
DayRange_atleast1(n) == 1..(IF n < 1 THEN 1 ELSE n)

\* range(1, days + 1)
DayRange(n) == 1..n

\* a faulty variant of OnWriteError: the error swallowed, main goes on
OnWriteError_swallow(next) == next

\* where main continues when write() raises: no statement of main that calls
\* write() is inside a try block, so the exception leaves main
OnWriteError(next) == "crashed"

\* a faulty variant of GitCatches: `except subprocess.CalledProcessError`
GitCatches_narrow(e) == e = "CalledProcessError"

\* `except Exception` around the three git commands
GitCatches(e) == e \in {"FileNotFoundError", "CalledProcessError", "OSError"}

\* lines 283-295: the argument check, the two int() conversions, the paths
Start ==
    /\ pc = "start"
    /\ IF ArgsMissing(argv)
       THEN /\ stdout' = Append(stdout, Usage)
            /\ exit' = <<1>>
            /\ exc' = "SystemExit"
            /\ pc' = "exited"
            /\ UNCHANGED <<year, days>>
       ELSE IF Len(argv) < 3
       THEN /\ exit' = <<1>>
            /\ exc' = "IndexError"
            /\ pc' = "crashed"
            /\ UNCHANGED <<year, days, stdout>>
       ELSE IF ~IsIntLiteral(argv[2]) \/ ~IsIntLiteral(argv[3])
       THEN /\ exit' = <<1>>
            /\ exc' = "ValueError"
            /\ pc' = "crashed"
            /\ UNCHANGED <<year, days, stdout>>
       ELSE /\ year' = IntOf(argv[2])
            /\ days' = IntOf(argv[3])
            /\ pc' = "package"
            /\ UNCHANGED <<exit, exc, stdout>>
    /\ UNCHANGED <<argv, day, subcommands, dirs, disk, gitInstalled, gitRepo,
                   gitIndex, commits, gitErr, run, log, wrote, before,
                   failedAt, failCause>>

\* a faulty variant of NextStmt: the test file written before the day file
NextStmt_swapped(stmt) ==
    CASE stmt = "package" -> "gitignore"
      [] stmt = "gitignore" -> "readme"
      [] stmt = "readme" -> "protocol"
      [] stmt = "protocol" -> "for"
      [] stmt = "for" -> "test_file"
      [] stmt = "test_file" -> "day_file"
      [] stmt = "day_file" -> "input_file"
      [] stmt = "input_file" -> "for"
      [] stmt = "root_cli" -> "git_init"

\* the statement of main that follows a statement, as lines 297-313 list them
\* ("for" stands for the loop head, which is followed by the first statement
\* of the loop body)
NextStmt(stmt) ==
    CASE stmt = "package" -> "gitignore"
      [] stmt = "gitignore" -> "readme"
      [] stmt = "readme" -> "protocol"
      [] stmt = "protocol" -> "for"
      [] stmt = "for" -> "day_file"
      [] stmt = "day_file" -> "test_file"
      [] stmt = "test_file" -> "input_file"
      [] stmt = "input_file" -> "for"
      [] stmt = "root_cli" -> "git_init"

\* one call of write(p, contents) in main, followed by the statement `next`
DoWrite(p, contents, next) ==
    \E fault \in Faults :
        LET r == write(dirs, disk, p, contents, fault)
            to == IF r.raised THEN OnWriteError(next) ELSE next
        IN  /\ dirs' = r.dirs
            /\ disk' = r.disk
            /\ pc' = to
            /\ exit' = IF to = "crashed" THEN <<1>> ELSE exit
            /\ exc' = IF to = "crashed" THEN "OSError" ELSE exc
            /\ failedAt' = IF r.raised THEN p ELSE failedAt
            /\ failCause' = IF r.raised THEN fault ELSE failCause
            /\ log' = IF r.raised THEN log ELSE Append(log, Ev("write", p))
            /\ wrote' = IF r.raised THEN wrote ELSE (p :> contents) @@ wrote

WriteFrame == <<argv, year, days, day, subcommands, gitInstalled, gitRepo,
                gitIndex, commits, stdout, gitErr, run, before>>

\* line 297
WritePackage ==
    /\ pc = "package"
    /\ DoWrite(PackagePath(year), package_swift(ProjectName(year)), NextStmt("package"))
    /\ UNCHANGED WriteFrame

\* line 298
WriteGitignore ==
    /\ pc = "gitignore"
    /\ DoWrite(GitignorePath(year), gitignore_contents, NextStmt("gitignore"))
    /\ UNCHANGED WriteFrame

\* line 299
WriteReadme ==
    /\ pc = "readme"
    /\ DoWrite(ReadmePath(year), readme_file(year, ProjectName(year)), NextStmt("readme"))
    /\ UNCHANGED WriteFrame

\* lines 300 and 302: the last write before the loop, then subcommands = []
WriteProtocol ==
    /\ pc = "protocol"
    /\ DoWrite(ProtocolPath(year), protocol_file(year), NextStmt("protocol"))
    /\ UNCHANGED WriteFrame

\* lines 303-305: the loop head takes the next day and appends its entry
ForNext ==
    /\ pc = "for"
    /\ IF day + 1 \in DayRange(days)
       THEN /\ day' = day + 1
            /\ subcommands' = Append(subcommands, StructName(day + 1) \o ".self")
            /\ pc' = NextStmt("for")
       ELSE /\ pc' = "root_cli"
            /\ UNCHANGED <<day, subcommands>>
    /\ UNCHANGED <<argv, year, days, dirs, disk, gitInstalled, gitRepo,
                   gitIndex, commits, stdout, exit, exc, gitErr, run, log,
                   wrote, before, failedAt, failCause>>

\* line 307
WriteDay ==
    /\ pc = "day_file"
    /\ DoWrite(sources(year) \o <<StructName(day) \o ".swift">>,
               day_file(day), NextStmt("day_file"))
    /\ UNCHANGED WriteFrame

\* line 308
WriteTest ==
    /\ pc = "test_file"
    /\ DoWrite(tests(year) \o <<StructName(day) \o "Tests.swift">>,
               test_file(day, ProjectName(year)), NextStmt("test_file"))
    /\ UNCHANGED WriteFrame

\* line 309
WriteInput ==
    /\ pc = "input_file"
    /\ DoWrite(inputs(year) \o <<"day" \o Fmt02(day) \o ".txt">>, <<>>, NextStmt("input_file"))
    /\ UNCHANGED WriteFrame

\* line 311
WriteRoot ==
    /\ pc = "root_cli"
    /\ DoWrite(RootPath(year), root_cli(subcommands, year), NextStmt("root_cli"))
    /\ UNCHANGED WriteFrame

\* an exception e raised by subprocess.run inside the try block (lines 313-323)
GitRaise(e) ==
    /\ gitErr' = e
    /\ IF GitCatches(e)
       THEN /\ stdout' = Append(stdout, GitWarning(e))
            /\ pc' = "summary"
            /\ UNCHANGED <<exit, exc>>
       ELSE /\ exit' = <<1>>
            /\ exc' = e
            /\ pc' = "crashed"
            /\ UNCHANGED stdout

\* line 314: subprocess.run(["git", "init"], cwd=project_dir, check=True)
GitInit ==
    /\ pc = "git_init"
    /\ \/ /\ ~gitInstalled
          /\ GitRaise("FileNotFoundError")
          /\ UNCHANGED <<log, gitRepo, dirs>>
       \/ /\ gitInstalled
          /\ log' = Append(log, Ev("git", <<"init">>))
          /\ \/ /\ GitRaise("CalledProcessError")
                /\ UNCHANGED <<gitRepo, dirs>>
             \/ /\ gitRepo' = TRUE
                /\ dirs' = dirs \cup {project_dir(year) \o <<".git">>}
                /\ pc' = "git_add"
                /\ UNCHANGED <<stdout, exit, exc, gitErr>>
    /\ UNCHANGED <<argv, year, days, day, subcommands, disk, gitInstalled,
                   gitIndex, commits, run, wrote, before, failedAt, failCause>>

\* line 315: subprocess.run(["git", "add", "."], cwd=project_dir, check=True)
GitAdd ==
    /\ pc = "git_add"
    /\ log' = Append(log, Ev("git", <<"add", ".">>))
    /\ \/ /\ GitRaise("CalledProcessError")
          /\ UNCHANGED gitIndex
       \/ /\ gitIndex' = Staged(disk, year)
          /\ pc' = "git_commit"
          /\ UNCHANGED <<stdout, exit, exc, gitErr>>
    /\ UNCHANGED <<argv, year, days, day, subcommands, dirs, disk,
                   gitInstalled, gitRepo, commits, run, wrote, before,
                   failedAt, failCause>>

\* the tree of the last commit
HeadTree == IF commits = <<>> THEN EmptyFS ELSE commits[Len(commits)]

\* lines 316-321: git commit -m <message>, then print("Initialized ...");
\* git commit exits non-zero when the index equals the last commit
GitCommit ==
    /\ pc = "git_commit"
    /\ log' = Append(log, Ev("git", <<"commit", "-m", CommitMessage(year)>>))
    /\ \/ /\ GitRaise("CalledProcessError")
          /\ UNCHANGED commits
       \/ /\ gitIndex # HeadTree
          /\ commits' = Append(commits, gitIndex)
          /\ stdout' = Append(stdout, GitOk)
          /\ pc' = "summary"
          /\ UNCHANGED <<exit, exc, gitErr>>
    /\ UNCHANGED <<argv, year, days, day, subcommands, dirs, disk,
                   gitInstalled, gitRepo, gitIndex, run, wrote, before,
                   failedAt, failCause>>

\* line 325, after which main returns and the process ends with status 0
PrintSummary ==
    /\ pc = "summary"
    /\ stdout' = Append(stdout, Summary(year, days))
    /\ log' = Append(log, Ev("summary", <<>>))
    /\ exit' = <<0>>
    /\ pc' = "done"
    /\ UNCHANGED <<argv, year, days, day, subcommands, dirs, disk,
                   gitInstalled, gitRepo, gitIndex, commits, exc, gitErr, run,
                   wrote, before, failedAt, failCause>>

\* the operator runs the generator again, with the same arguments, in the same
\* working directory: a new process, the file system and the repository kept
Rerun ==
    /\ pc = "done"
    /\ run < MaxRuns
    /\ run' = run + 1
    /\ before' = disk
    /\ pc' = "start"
    /\ year' = 0 /\ days' = 0 /\ day' = 0
    /\ subcommands' = <<>>
    /\ stdout' = <<>>
    /\ exit' = <<>>
    /\ exc' = "none"
    /\ gitErr' = "none"
    /\ log' = <<>>
    /\ wrote' = EmptyFS
    /\ failedAt' = <<>>
    /\ failCause' = "none"
    /\ UNCHANGED <<argv, dirs, disk, gitInstalled, gitRepo, gitIndex, commits>>

\* ------------------------------------------- the generated project: a day
\* The text protocol_file() and day_file() emit is Swift; what follows is the
\* behaviour of that Swift when the operator runs
\*     swift run AdventOfCode<year> <subcommand>

VARIABLES
    rArg,       \* the subcommand the operator types
    rDays,      \* the number of days the project was generated with
    rpc,        \* position in the command's execution
    rDay,       \* Self.day of the command that was dispatched, or 0
    rFile,      \* the bundled Inputs/day<NN>.txt as input(day:) found it
    rSession,   \* AOC_SESSION as remoteInput(day:) found it
    rHttp,      \* the outcome of URLSession.shared.data(for:)
    rRequests,  \* the number of HTTP GETs issued
    rInput,     \* where the input came from: "none", "local" or "remote"
    rCalls,     \* parse, part1 and part2, in the order they were called
    rOut        \* the lines printed

rvars == <<rArg, rDays, rpc, rDay, rFile, rSession, rHttp, rRequests, rInput,
           rCalls, rOut>>

vars == <<gvars, rvars>>

\* commandName: "day\(Self.day)", with `static let day = {day}` of day_file
CommandName(d) == "day" \o Str(d)

\* let fileName = "day" + String(format: "%02d", day) + ".txt"
InputFileName(d) == "day" \o Fmt02(d) \o ".txt"

\* the subcommand the README documents for day d ("day01" for day 1)
ReadmeSubcommand(d) == "day" \o Fmt02(d)

\* a faulty variant of SessionUsable: the isEmpty test forgotten
SessionUsable_unchecked(s) == s # "unset"

\* guard let session = environment["AOC_SESSION"], !session.isEmpty
SessionUsable(s) == s = "set"

\* the bundled file is used when it was found, read as UTF-8 and not empty
LocalUsable(f) == f = "text"

RunArgs == {CommandName(d) : d \in 1..MaxRunDay}
              \cup {ReadmeSubcommand(d) : d \in 1..MaxRunDay}

FileStates == {"missing", "empty", "text", "undecodable"}
SessionStates == {"unset", "empty", "set"}
HttpOutcomes == {"200 text", "200 undecodable", "not 200", "error"}

DayIdle ==
    /\ rArg = "" /\ rDays = 0 /\ rpc = "idle" /\ rDay = 0
    /\ rFile = "unread" /\ rSession = "unread" /\ rHttp = "none"
    /\ rRequests = 0 /\ rInput = "none" /\ rCalls = <<>> /\ rOut = <<>>

DayInit ==
    /\ rArg \in RunArgs
    /\ rDays \in 1..MaxRunDay
    /\ rpc = "dispatch"
    /\ rDay = 0
    /\ rFile = "unread" /\ rSession = "unread" /\ rHttp = "none"
    /\ rRequests = 0 /\ rInput = "none" /\ rCalls = <<>> /\ rOut = <<>>

\* the root command of root_cli() looks the argument up among the command
\* names of its subcommands Day01.self .. Day<N>.self
Dispatch ==
    /\ rpc = "dispatch"
    /\ IF \E d \in 1..rDays : CommandName(d) = rArg
       THEN /\ rDay' = CHOOSE d \in 1..rDays : CommandName(d) = rArg
            /\ rpc' = "input"
       ELSE /\ rpc' = "usage_error"
            /\ UNCHANGED rDay
    /\ UNCHANGED <<rArg, rDays, rFile, rSession, rHttp, rRequests, rInput,
                   rCalls, rOut>>

\* input(day:), generated lines 89-104
Input ==
    /\ rpc = "input"
    /\ \E f \in FileStates :
          /\ rFile' = f
          /\ IF f = "undecodable"
             THEN /\ rpc' = "thrown"
                  /\ UNCHANGED <<rInput, rOut>>
             ELSE IF LocalUsable(f)
             THEN /\ rOut' = Append(rOut, "Using local input for day " \o Str(rDay))
                  /\ rInput' = "local"
                  /\ rpc' = "parse"
             ELSE /\ rpc' = "remote"
                  /\ UNCHANGED <<rInput, rOut>>
    /\ UNCHANGED <<rArg, rDays, rDay, rSession, rHttp, rRequests, rCalls>>

\* remoteInput(day:), generated lines 106-131
RemoteInput ==
    /\ rpc = "remote"
    /\ rOut' = Append(rOut, "Downloading input for day " \o Str(rDay) \o "...")
    /\ \E s \in SessionStates :
          /\ rSession' = s
          /\ IF ~SessionUsable(s)
             THEN /\ rpc' = "fatal"
                  /\ UNCHANGED <<rHttp, rRequests, rInput>>
             ELSE \E h \in HttpOutcomes :
                     /\ rHttp' = h
                     /\ rRequests' = rRequests + 1
                     /\ rpc' = CASE h = "error" -> "thrown"
                                 [] h = "200 text" -> "parse"
                                 [] OTHER -> "fatal"
                     /\ rInput' = IF h = "200 text" THEN "remote" ELSE rInput
    /\ UNCHANGED <<rArg, rDays, rDay, rFile, rCalls>>

\* run(), generated line 82
Parse ==
    /\ rpc = "parse"
    /\ rCalls' = Append(rCalls, "parse")
    /\ rpc' = "part1"
    /\ UNCHANGED <<rArg, rDays, rDay, rFile, rSession, rHttp, rRequests,
                   rInput, rOut>>

\* run(), generated line 83
Part1 ==
    /\ rpc = "part1"
    /\ rCalls' = Append(rCalls, "part1")
    /\ rpc' = "part2"
    /\ UNCHANGED <<rArg, rDays, rDay, rFile, rSession, rHttp, rRequests,
                   rInput, rOut>>

\* run(), generated line 84
Part2 ==
    /\ rpc = "part2"
    /\ rCalls' = Append(rCalls, "part2")
    /\ rpc' = "print"
    /\ UNCHANGED <<rArg, rDays, rDay, rFile, rSession, rHttp, rRequests,
                   rInput, rOut>>

\* run(), generated lines 85-86, with the placeholder results of day_file()
PrintParts ==
    /\ rpc = "print"
    /\ rOut' = rOut \o <<"Part 1: Not implemented", "Part 2: Not implemented">>
    /\ rpc' = "finished"
    /\ UNCHANGED <<rArg, rDays, rDay, rFile, rSession, rHttp, rRequests,
                   rInput, rCalls>>

\* -------------------------------------------------------- specifications
GenIdle ==
    /\ argv = <<Prog>> /\ pc = "idle"
    /\ year = 0 /\ days = 0 /\ day = 0 /\ subcommands = <<>>
    /\ dirs = {<<>>} /\ disk = EmptyFS
    /\ gitInstalled = FALSE /\ gitRepo = FALSE
    /\ gitIndex = EmptyFS /\ commits = <<>>
    /\ stdout = <<>> /\ exit = <<>> /\ exc = "none" /\ gitErr = "none"
    /\ run = 1 /\ log = <<>> /\ wrote = EmptyFS /\ before = EmptyFS
    /\ failedAt = <<>> /\ failCause = "none"

\* the generator
Init == GenInit /\ DayIdle

Next ==
    \/ Start /\ UNCHANGED rvars
    \/ WritePackage /\ UNCHANGED rvars
    \/ WriteGitignore /\ UNCHANGED rvars
    \/ WriteReadme /\ UNCHANGED rvars
    \/ WriteProtocol /\ UNCHANGED rvars
    \/ ForNext /\ UNCHANGED rvars
    \/ WriteDay /\ UNCHANGED rvars
    \/ WriteTest /\ UNCHANGED rvars
    \/ WriteInput /\ UNCHANGED rvars
    \/ WriteRoot /\ UNCHANGED rvars
    \/ GitInit /\ UNCHANGED rvars
    \/ GitAdd /\ UNCHANGED rvars
    \/ GitCommit /\ UNCHANGED rvars
    \/ PrintSummary /\ UNCHANGED rvars
    \/ Rerun /\ UNCHANGED rvars

Spec == Init /\ [][Next]_vars

\* one run of a day of the generated project
RunInit == GenIdle /\ DayInit

RunNext ==
    \/ Dispatch /\ UNCHANGED gvars
    \/ Input /\ UNCHANGED gvars
    \/ RemoteInput /\ UNCHANGED gvars
    \/ Parse /\ UNCHANGED gvars
    \/ Part1 /\ UNCHANGED gvars
    \/ Part2 /\ UNCHANGED gvars
    \/ PrintParts /\ UNCHANGED gvars

SpecDay == RunInit /\ [][RunNext]_vars

\* ------------------------------------------------------------ properties
\* d written with at least two digits (zero-filled below 10), stated apart
\* from the format specification of the code
AtLeastTwoDigits(d) == IF d < 10 THEN "0" \o DigitChar[d + 1] ELSE Str(d)

\* the strings of exactly two decimal digits that denote d (none from 100 on)
TwoDigitNames(d) ==
    {DigitChar[a + 1] \o DigitChar[b + 1] :
        <<a, b>> \in {x \in (0..9) \X (0..9) : 10 * x[1] + x[2] = d}}

FixedPaths(yr) ==
    {PackagePath(yr), GitignorePath(yr), ReadmePath(yr), ProtocolPath(yr),
     RootPath(yr)}

ClaimDayPath(yr, nn) == sources(yr) \o <<"Day" \o nn \o ".swift">>
ClaimTestPath(yr, nn) == tests(yr) \o <<"Day" \o nn \o "Tests.swift">>
ClaimInputPath(yr, nn) == inputs(yr) \o <<"day" \o nn \o ".txt">>

\* the current run wrote every file it was to write: it reached the summary
\* and no write raised
CompleteRun == pc = "done" /\ failedAt = <<>>

\* the files written by the run are the fixed ones and, for every day d of
\* 1..days, the three files named by Name(d), the input file being empty
DayFilesNamedBy(Name(_)) ==
    LET dayFiles == {ClaimDayPath(year, Name(d)) : d \in 1..days}
        testFiles == {ClaimTestPath(year, Name(d)) : d \in 1..days}
        inputFiles == {ClaimInputPath(year, Name(d)) : d \in 1..days}
    IN  /\ DOMAIN wrote = FixedPaths(year) \cup dayFiles \cup testFiles \cup inputFiles
        /\ Cardinality(dayFiles) = days
        /\ Cardinality(testFiles) = days
        /\ Cardinality(inputFiles) = days
        /\ Cardinality(DOMAIN wrote) = 5 + 3 * days
        /\ \A p \in DOMAIN wrote : p \in DOMAIN disk /\ disk[p] = wrote[p]
        /\ \A p \in inputFiles : disk[p] = <<>>
        /\ \A p \in dayFiles \cup testFiles : disk[p] # <<>>

\* C1 as stated: after a run with dayCount = N >= 1 in which no write failed,
\* the day, test and input files written are exactly one of each per day of
\* 1..N, each named with the day as a number of exactly two digits.
C1_TwoDigitFiles ==
    (CompleteRun /\ days >= 1) =>
        /\ \A d \in 1..days : TwoDigitNames(d) # {}
        /\ DayFilesNamedBy(LAMBDA d : CHOOSE nn \in TwoDigitNames(d) : TRUE)

\* C1 amended: the same, each file named with the day written with at least
\* two digits: zero-filled to two digits up to 99, in full from 100 on.
C1_PaddedFiles ==
    (CompleteRun /\ days >= 1) => DayFilesNamedBy(AtLeastTwoDigits)

C1_Witness == CompleteRun /\ days = ManyDays /\ run = 1

\* the subcommand list embedded in the text of the root entry point
EmbeddedSubcommands(text) == SubSeq(text, 5, Len(text) - 1)

\* C2: once the root entry point is written (N >= 1), its subcommand list is
\* Day01.self .. Day<N>.self, entry d naming day d, in ascending order without
\* gap or duplicate, and the day file of each entry was written by this run.
C2_SubcommandList ==
    (RootPath(year) \in DOMAIN wrote /\ days >= 1) =>
        LET subs == EmbeddedSubcommands(disk[RootPath(year)])
        IN  /\ Len(subs) = days
            /\ \A d \in 1..days :
                  /\ subs[d] = "Day" \o AtLeastTwoDigits(d) \o ".self"
                  /\ ClaimDayPath(year, AtLeastTwoDigits(d)) \in DOMAIN wrote
                  /\ wrote[ClaimDayPath(year, AtLeastTwoDigits(d))][1]
                        = "struct Day" \o AtLeastTwoDigits(d) \o ": AdventOfCodeDay"
            /\ \A i, j \in 1..days : i < j => subs[i] # subs[j]

C2_Witness == RootPath(year) \in DOMAIN wrote /\ days = MaxDays /\ pc = "git_init"

\* C3: a run with fewer than two positional arguments prints the usage line
\* and exits with status 1, having created no directory, written no file and
\* started no git command.
C3_UsageExit ==
    (Len(argv) < 3 /\ pc # "start") =>
        /\ pc = "exited"
        /\ stdout = <<Usage>>
        /\ exit = <<1>>
        /\ dirs = {<<>>}
        /\ disk = EmptyFS
        /\ wrote = EmptyFS
        /\ log = <<>>
        /\ ~gitRepo /\ gitIndex = EmptyFS /\ commits = <<>>

C3_Witness == Len(argv) = 2 /\ pc = "exited"

IsLine(seq, line) == \E i \in 1..Len(seq) : seq[i] = line

\* C4: when a git command fails (executable missing, or non-zero status) the
\* failure is caught and printed as a warning, the run goes on to the summary
\* and ends with status 0, and the files written by the run are on disk as
\* they were written.
C4_GitFailureCaught ==
    (gitErr # "none") =>
        /\ pc \in {"summary", "done"}
        /\ exc = "none"
        /\ IsLine(stdout, GitWarning(gitErr))
        /\ ~IsLine(stdout, GitOk)
        /\ \A p \in DOMAIN wrote : p \in DOMAIN disk /\ disk[p] = wrote[p]
        /\ RootPath(year) \in DOMAIN wrote
        /\ pc = "done" =>
              /\ exit = <<0>>
              /\ stdout[Len(stdout)] = Summary(year, days)

C4_Witness == pc = "done" /\ gitErr = "FileNotFoundError" /\ days >= 1

C4_WitnessNonZero ==
    pc = "done" /\ gitErr = "CalledProcessError" /\ Len(log) > 0
        /\ log[Len(log) - 1] = Ev("git", <<"add", ".">>)

RECURSIVE DayWrites(_, _)
\* the three paths of each day of 1..n, day after day
DayWrites(yr, n) ==
    IF n < 1 THEN <<>>
    ELSE DayWrites(yr, n - 1)
            \o <<DayPath(yr, n), TestPath(yr, n), InputPath(yr, n)>>

\* the paths main writes, in the order of its statements
WriteOrder(yr, n) ==
    <<PackagePath(yr), GitignorePath(yr), ReadmePath(yr), ProtocolPath(yr)>>
        \o DayWrites(yr, n) \o <<RootPath(yr)>>

WriteEvents(paths) == [i \in 1..Len(paths) |-> Ev("write", paths[i])]

\* the i-th path main writes when it is to write n days, given the project,
\* sources, tests and inputs directories
WriteAt(prj, src, tst, inp, n, i) ==
    IF i = 1 THEN prj \o <<"Package.swift">>
    ELSE IF i = 2 THEN prj \o <<".gitignore">>
    ELSE IF i = 3 THEN prj \o <<"README.md">>
    ELSE IF i = 4 THEN src \o <<"AdventOfCodeDay.swift">>
    ELSE IF i = 5 + 3 * n THEN src \o <<"AdventOfCode.swift">>
    ELSE LET d == ((i - 5) \div 3) + 1
             k == (i - 5) % 3
         IN  IF k = 0
             THEN src \o <<"Day" \o AtLeastTwoDigits(d) \o ".swift">>
             ELSE IF k = 1
             THEN tst \o <<"Day" \o AtLeastTwoDigits(d) \o "Tests.swift">>
             ELSE inp \o <<"day" \o AtLeastTwoDigits(d) \o ".txt">>

\* C5: when a write raises, the run ends there with the error: what the run
\* did is exactly the writes that precede the failing one, no git command was
\* started, no summary printed, and the files written before are on disk as
\* they were written.
C5_WriteFailureAborts ==
    (failedAt # <<>>) =>
        /\ pc = "crashed"
        /\ exit = <<1>>
        /\ exc = "OSError"
        /\ LET prj == project_dir(year)
               src == sources(year)
               tst == tests(year)
               inp == inputs(year)
               n == IF days < 0 THEN 0 ELSE days
           IN  /\ Len(log) < 5 + 3 * n
               /\ \A i \in 1..Len(log) :
                     log[i] = Ev("write", WriteAt(prj, src, tst, inp, n, i))
               /\ failedAt = WriteAt(prj, src, tst, inp, n, Len(log) + 1)
        /\ failedAt \notin DOMAIN wrote
        /\ \A p \in DOMAIN wrote : p \in DOMAIN disk /\ disk[p] = wrote[p]
        /\ ~IsLine(stdout, Summary(year, days))
        /\ gitErr = "none"
        /\ run = 1 => ~gitRepo

C5_Witness == failedAt # <<>> /\ Len(log) >= 6 /\ failCause = "write"

\* C6: a second run with the same arguments in the same directory does not
\* fail on the files that exist (a write raises only on a fault of the file
\* system), ends with the summary, and leaves the same paths with the same
\* contents as the first run did.
C6_SecondRunIdempotent ==
    (run >= 2) =>
        /\ failedAt # <<>> => failCause # "none"
        /\ pc \notin {"exited"}
        /\ pc = "crashed" => failedAt # <<>>
        /\ pc = "done" =>
              /\ disk = before
              /\ exit = <<0>>
              /\ stdout[Len(stdout)] = Summary(year, days)
              /\ \A p \in DOMAIN wrote : disk[p] = wrote[p]
              /\ DOMAIN wrote = DOMAIN disk

C6_Witness == run = 2 /\ pc = "done" /\ days >= 2 /\ Len(commits) = 1

WithoutReadme(events) ==
    SelectSeq(events, LAMBDA e : e # Ev("write", ReadmePath(year)))

GitCommands ==
    << Ev("git", <<"init">>), Ev("git", <<"add", ".">>),
       Ev("git", <<"commit", "-m", CommitMessage(year)>>) >>

\* what C8 lists, with the first k git commands
ListedOrder(k) ==
    WithoutReadme(WriteEvents(WriteOrder(year, days)))
        \o SubSeq(GitCommands, 1, k) \o <<Ev("summary", <<>>)>>

NoPathTwice ==
    \A i, j \in 1..Len(log) :
        (i < j /\ log[i].ev = "write" /\ log[j].ev = "write") => log[i] # log[j]

\* C8: a run in which no write fails does, in this order and each path once,
\* the writes of the manifest, the ignore file, the day abstraction, the three
\* files of each day in ascending order and the root entry point, then the
\* git commands in the order init, add, commit, each started only after the
\* one before it completed (all three when none fails; a command that fails
\* is the last one started, none is started when the executable is missing),
\* then the summary.
C8_StepsInOrder ==
    CompleteRun =>
        /\ NoPathTwice
        /\ \E k \in 0..3 :
              /\ WithoutReadme(log) = ListedOrder(k)
              /\ gitErr = "none" => k = 3
              /\ gitErr = "CalledProcessError" => k >= 1
              /\ gitErr = "FileNotFoundError" => k = 0

C8_Witness == CompleteRun /\ gitErr = "none" /\ days = 3

\* C10: a day count <= 0 is not rejected: the run writes the manifest, the
\* ignore file, the README and the day abstraction, no file of any day, and a
\* root entry point with an empty subcommand list, then attempts the git
\* commands and prints the summary (it ends early only if a write raises).
C10_NonPositiveDays ==
    (Len(argv) >= 3 /\ IsIntLiteral(argv[2]) /\ IsIntLiteral(argv[3])
        /\ IntOf(argv[3]) <= 0 /\ pc # "start") =>
        /\ pc # "exited"
        /\ pc = "crashed" => (failedAt # <<>> /\ failCause # "none")
        /\ DOMAIN wrote \subseteq FixedPaths(year)
        /\ subcommands = <<>>
        /\ pc \in {"git_init", "git_add", "git_commit", "summary", "done"} =>
              /\ DOMAIN wrote = FixedPaths(year)
              /\ DOMAIN disk = FixedPaths(year)
              /\ EmbeddedSubcommands(disk[RootPath(year)]) = <<>>
        /\ pc = "done" =>
              /\ exit = <<0>>
              /\ stdout[Len(stdout)] = Summary(year, days)
              /\ \/ gitErr = "FileNotFoundError"
                 \/ Len(log) >= 7 /\ log[6] = Ev("git", <<"init">>)

C10_Witness == pc = "done" /\ days = 0 - 1 /\ gitErr = "none"

\* ------------------------------------------- properties of the day's run
\* C7: the subcommand the README documents for day d, "day" followed by d as
\* two digits, is the one the generated program registers for day d: typing it
\* runs day d.
C7_ReadmeSubcommandRuns ==
    \A d \in 1..rDays :
        (rArg = ReadmeSubcommand(d) /\ rpc # "dispatch") => rDay = d

NoPartPrinted ==
    /\ ~IsLine(rOut, "Part 1: Not implemented")
    /\ ~IsLine(rOut, "Part 2: Not implemented")

C9_Rest ==
    /\ rFile \in {"missing", "empty"} =>
          (rpc = "remote" \/ rSession # "unread")
    /\ rRequests > 0 => rSession = "set"
    /\ rRequests <= 1
    /\ (rSession \in {"unset", "empty"} \/ rHttp \in {"not 200", "200 undecodable"}) =>
          /\ rpc = "fatal"
          /\ rCalls = <<>>
          /\ NoPartPrinted
    /\ rSession \in {"unset", "empty"} => rRequests = 0

====
